---- MODULE Spec2Model ----
(***************************************************************************)
(* A model of the miner adapters of openminers:                            *)
(*   - BloomChatMiner        (text_to_text/bloom/miner.py)                 *)
(*   - BertEmbeddingMiner    (text_to_embedding/bert/miner.py)             *)
(*   - BaseTextToVideoMiner  (base/texttovideo_miner.py)                   *)
(* Python strings are sequences of one-character strings.  Real numbers    *)
(* are exact rationals; the squares of the normalised components are kept  *)
(* so that no square root is needed.                                       *)
(***************************************************************************)
EXTENDS Integers, Sequences, FiniteSets, TLC

VARIABLES resp, bloom, bert, pool, video

vars == <<resp, bloom, bert, pool, video>>

(***************************************************************************)
(* Bounds of the model.                                                    *)
(***************************************************************************)
MaxMessages == 2
MaxContentLen == 1
MaxContinuationLen == 2
MaxTextLen == 3
MaxModelLen == 4
MaxSeqLen == 2
MaxArg == 2

(***************************************************************************)
(* Strings.                                                                *)
(***************************************************************************)
RECURSIVE SeqsUpTo(_, _)
SeqsUpTo(S, n) ==
    IF n = 0 THEN {<<>>}
    ELSE LET shorter == SeqsUpTo(S, n - 1)
         IN  shorter \cup {Append(s, x) : s \in shorter, x \in S}

StartsWith(s, p) ==
    /\ Len(p) <= Len(s)
    /\ SubSeq(s, 1, Len(p)) = p

\* str.replace(old, ""): every non-overlapping occurrence of old, found
\* scanning left to right, is removed; an empty old changes nothing here.
RECURSIVE Replace(_, _)
Replace(s, old) ==
    IF old = <<>> \/ Len(s) < Len(old) THEN s
    ELSE IF StartsWith(s, old)
         THEN Replace(SubSeq(s, Len(old) + 1, Len(s)), old)
         ELSE <<Head(s)>> \o Replace(Tail(s), old)

\* str.split(':')[-1]: the text after the last ':', the whole text if none.
SplitColonLast(s) ==
    IF \E i \in 1..Len(s) : s[i] = ":"
    THEN LET i == CHOOSE j \in 1..Len(s) : s[j] = ":"
                      /\ \A k \in (j + 1)..Len(s) : s[k] # ":"
         IN  SubSeq(s, i + 1, Len(s))
    ELSE s

(***************************************************************************)
(* BloomChatMiner: the transcript and the response text.                   *)
(***************************************************************************)
HumanMarker == <<"<", "h", "u", "m", "a", "n", ">", ":", " ">>
BotMarker == <<"<", "b", "o", "t", ">", ":", " ">>
Newline == <<"\n">>

Roles == {"system", "user", "assistant", "function"}
KnownRoles == {"system", "user", "assistant"}
Alphabet == {"a", ":"}
Contents == SeqsUpTo(Alphabet, MaxContentLen)
Messages == [role : Roles, content : Contents]
Histories == SeqsUpTo(Messages, MaxMessages)
Frameworks == {"accelerate", "deepspeed"}

\* A variant of the loop body that gives a system message the bot's marker.
ProcessMessageBotSystem(processed_history, message) ==
    IF message.role \in {"system", "assistant"}
    THEN processed_history \o BotMarker \o message.content \o Newline
    ELSE IF message.role = "user"
    THEN processed_history \o HumanMarker \o message.content \o Newline
    ELSE processed_history

\* One pass of the loop body of _process_history: three independent ifs.
ProcessMessage(processed_history, message) ==
    LET afterSystem ==
            IF message.role = "system"
            THEN processed_history \o HumanMarker \o message.content \o Newline
            ELSE processed_history
        afterAssistant ==
            IF message.role = "assistant"
            THEN afterSystem \o BotMarker \o message.content \o Newline
            ELSE afterSystem
    IN  IF message.role = "user"
        THEN afterAssistant \o HumanMarker \o message.content \o Newline
        ELSE afterAssistant

RECURSIVE ProcessFrom(_, _)
ProcessFrom(processed_history, history) ==
    IF history = <<>> THEN processed_history
    ELSE ProcessFrom(ProcessMessage(processed_history, Head(history)),
                     Tail(history))

_process_history(history) == ProcessFrom(<<>>, history)

\* The deepspeed branch: the decoded output with the transcript replaced.
DeepspeedResp(history, decoded) == Replace(decoded, history)

\* The accelerate branch: the text after the last colon of the generated
\* text, with the transcript replaced.
AccelerateResp(history, generated_text) ==
    Replace(SplitColonLast(generated_text), history)

ForwardResp(deployment_framework, history, text) ==
    IF deployment_framework = "deepspeed"
    THEN DeepspeedResp(history, text)
    ELSE AccelerateResp(history, text)

\* The texts the language model may hand back for a transcript: any text at
\* all in the code; here the continuations alone, the transcript followed by
\* a continuation, and the transcript echoed inside a copy of itself.
Continuations == SeqsUpTo(Alphabet, MaxContinuationLen)

GeneratedTexts(history) ==
    Continuations
    \cup {history \o c : c \in Continuations}
    \cup {SubSeq(history, 1, k) \o history \o SubSeq(history, k + 1, Len(history)) \o c :
            k \in 0..Len(history), c \in Continuations}
    \cup {history \o c \o history : c \in Continuations}

NoResp == [framework |-> "none", messages |-> <<>>, history |-> <<>>,
           generated |-> <<>>, out |-> <<>>]

RespInit == resp = NoResp

\* The computation of forward's return value from the messages and from the
\* text the model produced.
RespForward ==
    /\ resp = NoResp
    /\ \E f \in Frameworks, messages \in Histories :
         LET history == _process_history(messages)
         IN  \E text \in GeneratedTexts(history) :
                resp' = [framework |-> f, messages |-> messages,
                         history |-> history, generated |-> text,
                         out |-> ForwardResp(f, history, text)]
    /\ UNCHANGED <<bloom, bert, pool, video>>

\* _process_history(messages) on its own: a static method.
ProcessHistoryCall ==
    /\ resp = NoResp
    /\ \E messages \in Histories :
         resp' = [framework |-> "static", messages |-> messages,
                  history |-> _process_history(messages),
                  generated |-> <<>>, out |-> <<>>]
    /\ UNCHANGED <<bloom, bert, pool, video>>

\* The caller takes the response; the request's values are discarded.
RespReturn ==
    /\ resp # NoResp
    /\ resp' = NoResp
    /\ UNCHANGED <<bloom, bert, pool, video>>

(***************************************************************************)
(* BloomChatMiner: the instance attributes, __init__ and forward.          *)
(* A statement is the attributes of self it reads, the attributes it       *)
(* assigns and whether it invokes the language model; reading an attribute *)
(* that was never assigned raises AttributeError and ends the method.      *)
(***************************************************************************)
Stmt(line, reads, writes, invokes) ==
    [line |-> line, reads |-> reads, writes |-> writes, invokes |-> invokes]

\* What super().__init__() leaves on self: the configuration that line 43
\* reads, and the axon and synapse of a base miner.
BaseAttrs == {"config", "axon", "synapse"}

\* model_name and tokenizer are local variables of __init__ (lines 42-43).
InitBody(deployment_framework) ==
    <<Stmt(43, {"config"}, {}, FALSE), Stmt(45, {"config"}, {}, FALSE)>>
    \o IF deployment_framework = "deepspeed"
       THEN <<Stmt(48, {}, {"local_rank"}, FALSE),
              Stmt(50, {"local_rank"}, {}, FALSE),
              Stmt(53, {"config"}, {"model"}, FALSE),
              Stmt(54, {"model"}, {}, FALSE),
              Stmt(91, {"model"}, {"ds_engine"}, FALSE),
              Stmt(96, {"ds_engine"}, {}, FALSE)>>
       ELSE <<Stmt(106, {"model_name"}, {"model"}, FALSE),
              Stmt(108, {"model", "tokenizer"}, {"pipe"}, FALSE)>>

ForwardBody(deployment_framework) ==
    <<Stmt(129, {}, {}, FALSE), Stmt(131, {"config"}, {}, FALSE)>>
    \o IF deployment_framework = "deepspeed"
       THEN <<Stmt(133, {"tokenizer", "local_rank"}, {}, FALSE),
              Stmt(135, {"ds_engine"}, {}, TRUE),
              Stmt(136, {"tokenizer"}, {}, FALSE)>>
       ELSE <<Stmt(143, {"pipe", "tokenizer"}, {}, TRUE)>>

ForwardReads(deployment_framework) ==
    UNION {ForwardBody(deployment_framework)[i].reads :
             i \in 1..Len(ForwardBody(deployment_framework))}

\* Runs the statements in order from the attributes attrs.  modelFails says
\* whether the model's invocation raises.  The result: the attributes, the
\* line that raised (0: none) and the number of model invocations.
RECURSIVE RunBody(_, _, _, _)
RunBody(body, attrs, modelFails, calls) ==
    IF body = <<>> THEN [attrs |-> attrs, raisedAt |-> 0, calls |-> calls]
    ELSE LET s == Head(body)
         IN  IF ~(s.reads \subseteq attrs)
             THEN [attrs |-> attrs, raisedAt |-> s.line, calls |-> calls]
             ELSE IF s.invokes /\ modelFails
             THEN [attrs |-> attrs, raisedAt |-> s.line, calls |-> calls + 1]
             ELSE RunBody(Tail(body), attrs \cup s.writes, modelFails,
                          IF s.invokes THEN calls + 1 ELSE calls)

NoRequest == [messages |-> <<>>, status |-> "none", raisedAt |-> 0,
              calls |-> 0, out |-> <<>>]

BloomInit ==
    \E f \in Frameworks :
        bloom = [framework |-> f, pc |-> "new", attrs |-> {},
                 initRaisedAt |-> 0, request |-> NoRequest]

\* BloomChatMiner(): the whole of __init__.
BloomConstruct ==
    /\ bloom.pc = "new"
    /\ LET r == RunBody(InitBody(bloom.framework), BaseAttrs, FALSE, 0)
       IN  bloom' = [bloom EXCEPT
                       !.pc = IF r.raisedAt = 0 THEN "ready" ELSE "failed",
                       !.attrs = r.attrs,
                       !.initRaisedAt = r.raisedAt]
    /\ UNCHANGED <<resp, bert, pool, video>>

\* miner.forward(messages): the whole call, on a constructed miner.
BloomForward ==
    /\ bloom.pc = "ready"
    /\ bloom.request = NoRequest
    /\ \E messages \in Histories, modelFails \in BOOLEAN :
         LET history == _process_history(messages)
             r == RunBody(ForwardBody(bloom.framework), bloom.attrs,
                          modelFails, 0)
         IN  \E text \in GeneratedTexts(history) :
               bloom' = [bloom EXCEPT
                   !.attrs = r.attrs,
                   !.request =
                       [messages |-> messages,
                        status |-> IF r.raisedAt = 0 THEN "returned"
                                   ELSE "raised",
                        raisedAt |-> r.raisedAt,
                        calls |-> r.calls,
                        out |-> IF r.raisedAt = 0
                                THEN ForwardResp(bloom.framework, history, text)
                                ELSE <<>>]]
    /\ UNCHANGED <<resp, bert, pool, video>>

\* The call is over: its result, or its exception, has reached the caller.
BloomReturn ==
    /\ bloom.request # NoRequest
    /\ bloom' = [bloom EXCEPT !.request = NoRequest]
    /\ UNCHANGED <<resp, bert, pool, video>>

(***************************************************************************)
(* Numbers of the embedding adapter.  A denominator is m * 10^e.  A pooled *)
(* component is n / d, or NaN or an infinity when d is zero.  A normalised *)
(* component is kept as its sign and its square num / den * 10^exp.        *)
(***************************************************************************)
ClampMinExp == 9
EpsExp == 12

Abs(x) == IF x < 0 THEN -x ELSE x
Sign(x) == IF x < 0 THEN -1 ELSE IF x = 0 THEN 0 ELSE 1

RECURSIVE SumSeq(_)
SumSeq(s) == IF s = <<>> THEN 0 ELSE Head(s) + SumSeq(Tail(s))

\* The least integer that is at least a / 10^k, for a >= 0.
RECURSIVE CeilDivPow10(_, _)
CeilDivPow10(a, k) ==
    IF k = 0 THEN a ELSE CeilDivPow10((a + 9) \div 10, k - 1)

\* torch.clamp(x, min=1e-9) of a sum of mask entries: x is an integer, so
\* it is below 1e-9 exactly when it is below 1.
Clamp(x) ==
    IF x < 1 THEN [m |-> 1, e |-> -ClampMinExp] ELSE [m |-> x, e |-> 0]

\* n / d in IEEE arithmetic, d = m * 10^e with m >= 0.
Divide(n, d) ==
    IF d.m = 0
    THEN IF n = 0 THEN [kind |-> "nan", n |-> 0, d |-> d]
         ELSE [kind |-> "inf", n |-> Sign(n), d |-> d]
    ELSE [kind |-> "fin", n |-> n, d |-> d]

NaN == [kind |-> "nan", sgn |-> 0, num |-> 0, den |-> 1, exp |-> 0]
Zero == [kind |-> "fin", sgn |-> 0, num |-> 0, den |-> 1, exp |-> 0]

(***************************************************************************)
(* mean_pooling, on a batch: token_embeddings[b][t] is the vector of       *)
(* position t of row b, attention_mask[b][t] is 0 or 1.                    *)
(***************************************************************************)
\* A variant without the clamp: the bare sum of the mask.
PoolDivisorNoClamp(mask_row) == [m |-> SumSeq(mask_row), e |-> 0]

\* The divisor of a row: the sum of its expanded mask, clamped.
PoolDivisor(mask_row) == Clamp(SumSeq(mask_row))

mean_pooling(model_output, attention_mask) ==
    LET token_embeddings == model_output[1]
    IN  [b \in 1..Len(token_embeddings) |->
           LET row == token_embeddings[b]
               dim == IF row = <<>> THEN 0 ELSE Len(row[1])
           IN  [i \in 1..dim |->
                  Divide(SumSeq([t \in 1..Len(row) |->
                                   row[t][i] * attention_mask[b][t]]),
                         PoolDivisor(attention_mask[b]))]]

\* A variant that divides by the L1 norm instead of the L2 norm.
NormalizeRowL1(x) ==
    IF \E i \in 1..Len(x) : x[i].kind # "fin" THEN [i \in 1..Len(x) |-> NaN]
    ELSE LET l1 == SumSeq([i \in 1..Len(x) |-> Abs(x[i].n)])
         IN  [i \in 1..Len(x) |->
                [kind |-> "fin", sgn |-> Sign(x[i].n),
                 num |-> x[i].n * x[i].n,
                 den |-> IF l1 = 0 THEN 1 ELSE l1 * l1, exp |-> 0]]

\* F.normalize(x, p=2, dim=1) of one row: x / max(||x||, 1e-12).
NormalizeRow(x) ==
    IF \E i \in 1..Len(x) : x[i].kind = "nan"
    THEN [i \in 1..Len(x) |-> NaN]
    ELSE IF \E i \in 1..Len(x) : x[i].kind = "inf"
    THEN [i \in 1..Len(x) |-> IF x[i].kind = "inf" THEN NaN ELSE Zero]
    ELSE IF x = <<>> THEN <<>>
    ELSE LET d == x[1].d
             sumsq == SumSeq([i \in 1..Len(x) |-> x[i].n * x[i].n])
             k == 2 * EpsExp - 2 * d.e
         IN  IF sumsq >= 1 /\ sumsq >= CeilDivPow10(d.m * d.m, k)
             THEN [i \in 1..Len(x) |->
                     [kind |-> "fin", sgn |-> Sign(x[i].n),
                      num |-> x[i].n * x[i].n, den |-> sumsq, exp |-> 0]]
             ELSE [i \in 1..Len(x) |->
                     [kind |-> "fin", sgn |-> Sign(x[i].n),
                      num |-> x[i].n * x[i].n, den |-> d.m * d.m, exp |-> k]]

Normalize(sentence_embeddings) ==
    [b \in 1..Len(sentence_embeddings) |-> NormalizeRow(sentence_embeddings[b])]

\* Properties of a returned vector.
IsFinite(v) == \A i \in 1..Len(v) : v[i].kind = "fin"
IsZeroVector(v) == IsFinite(v) /\ \A i \in 1..Len(v) : v[i].num = 0
HasUnitNorm(v) ==
    /\ IsFinite(v)
    /\ v # <<>>
    /\ \A i \in 1..Len(v) : v[i].exp = 0 /\ v[i].den = v[1].den
    /\ SumSeq([i \in 1..Len(v) |-> v[i].num]) = v[1].den

(***************************************************************************)
(* BertEmbeddingMiner.                                                     *)
(***************************************************************************)
BatchSizes == {1, 2}
Vals == {-1, 1}
Vec == {<<x, y>> : x, y \in Vals}

Min(a, b) == IF a < b THEN a ELSE b
Max(a, b) == IF a < b THEN b ELSE a

RECURSIVE MaxLenOf(_)
MaxLenOf(rows) ==
    IF rows = <<>> THEN 0 ELSE Max(Len(Head(rows)), MaxLenOf(Tail(rows)))

Repeat(x, n) == [i \in 1..n |-> x]

\* The input strings: words of the one-letter alphabet, each letter a token.
BertTexts == SeqsUpTo({"a"}, MaxTextLen)
BertInputs == UNION {[1..n -> BertTexts] : n \in BatchSizes}
BertTokens == {"[CLS]", "[SEP]", "[PAD]", "a"}

\* tokenizer(text, truncation=True): [CLS] and [SEP] around the string's
\* tokens, cut so that the row has at most MaxModelLen tokens.
TokenizeOne(string) ==
    <<"[CLS]">> \o SubSeq(string, 1, Min(Len(string), MaxModelLen - 2))
        \o <<"[SEP]">>

\* tokenizer(text, padding=True, truncation=True, return_tensors="pt"):
\* every row padded with [PAD] to the longest row of the batch.
Tokenizer(text) ==
    LET rows == [b \in 1..Len(text) |-> TokenizeOne(text[b])]
        longest == MaxLenOf(rows)
    IN  [input_ids |->
            [b \in 1..Len(text) |->
               rows[b] \o Repeat("[PAD]", longest - Len(rows[b]))],
         attention_mask |->
            [b \in 1..Len(text) |->
               Repeat(1, Len(rows[b])) \o Repeat(0, longest - Len(rows[b]))]]

\* self.model(**encoded_input) in evaluation mode, under no_grad: a
\* deterministic function of the weights and of the input; here the weights
\* are a table of one vector per token.  The result is a tuple whose first
\* element holds the token embeddings.
ModelCall(model, encoded_input) ==
    <<[b \in 1..Len(encoded_input.input_ids) |->
         [t \in 1..Len(encoded_input.input_ids[b]) |->
            model[encoded_input.input_ids[b][t]]]]>>

\* The value forward returns when the model's invocation succeeds.
BertEmbed(miner, text) ==
    LET encoded_input == Tokenizer(text)
        model_output == ModelCall(miner.model, encoded_input)
        sentence_embeddings ==
            mean_pooling(model_output, encoded_input.attention_mask)
    IN  Normalize(sentence_embeddings)

\* A variant in which forward leaves the model changed (a training step).
MinerAfterForwardTrained(miner, text) ==
    [miner EXCEPT !.model =
        [t \in DOMAIN miner.model |->
            <<-miner.model[t][1], miner.model[t][2]>>]]

\* A variant of blacklist that rejects one caller.
BlacklistOneCaller(miner, forward_call) == forward_call.hotkey = "hk2"

\* forward assigns no attribute of self.
MinerAfterForward(miner, text) == miner

\* blacklist and priority: constant decisions, no assignment to self.
Blacklist(miner, forward_call) == FALSE
Priority(miner, forward_call) == 0
MinerAfterHook(miner, forward_call) == miner

ForwardCalls == [hotkey : {"hk1", "hk2"}]
NoCall == [hotkey |-> "none"]
NoFirst == [text |-> <<>>, out |-> <<>>]

BertInit ==
    \E w \in [BertTokens -> Vec] :
        bert = [miner |-> [tokenizer |-> "loaded", model |-> w],
                op |-> "none", text |-> <<>>, arg |-> NoCall,
                status |-> "none", calls |-> 0, out |-> <<>>,
                ret |-> "none", first |-> NoFirst, repeat |-> FALSE]

\* miner.forward(text): one invocation of the model, which returns or
\* raises; nothing catches the exception.
BertForward ==
    /\ bert.op = "none"
    /\ \E text \in BertInputs, modelFails \in BOOLEAN :
        /\ bert' = [bert EXCEPT
              !.miner = MinerAfterForward(bert.miner, text),
              !.op = "forward",
              !.text = text,
              !.status = IF modelFails THEN "raised" ELSE "returned",
              !.calls = 1,
              !.out = IF modelFails THEN <<>> ELSE BertEmbed(bert.miner, text),
              !.repeat = bert.first # NoFirst,
              !.first = IF bert.first = NoFirst /\ ~modelFails
                        THEN [text |-> text,
                              out |-> BertEmbed(bert.miner, text)]
                        ELSE bert.first]
        /\ UNCHANGED <<resp, bloom, pool, video>>

BertBlacklist ==
    /\ bert.op = "none"
    /\ \E forward_call \in ForwardCalls :
        /\ bert' = [bert EXCEPT
              !.miner = MinerAfterHook(bert.miner, forward_call),
              !.op = "blacklist",
              !.arg = forward_call,
              !.ret = Blacklist(bert.miner, forward_call)]
        /\ UNCHANGED <<resp, bloom, pool, video>>

BertPriority ==
    /\ bert.op = "none"
    /\ \E forward_call \in ForwardCalls :
        /\ bert' = [bert EXCEPT
              !.miner = MinerAfterHook(bert.miner, forward_call),
              !.op = "priority",
              !.arg = forward_call,
              !.ret = Priority(bert.miner, forward_call)]
        /\ UNCHANGED <<resp, bloom, pool, video>>

\* The call is over; the miner is kept, the call's values are discarded.
BertReturn ==
    /\ bert.op # "none"
    /\ bert' = [bert EXCEPT !.op = "none", !.text = <<>>, !.arg = NoCall,
                            !.status = "none", !.calls = 0, !.out = <<>>,
                            !.ret = "none", !.repeat = FALSE]
    /\ UNCHANGED <<resp, bloom, pool, video>>

(***************************************************************************)
(* mean_pooling and the normalisation of forward on arbitrary masks.       *)
(***************************************************************************)
NoPool == [emb |-> <<>>, mask |-> <<>>, pooled |-> <<>>, out |-> <<>>]

PoolInit == pool = NoPool

PoolForward ==
    /\ pool = NoPool
    /\ \E n \in BatchSizes, len \in 1..MaxSeqLen :
        \E emb \in [1..n -> [1..len -> Vec]],
           mask \in [1..n -> [1..len -> {0, 1}]] :
            /\ pool' = [emb |-> emb, mask |-> mask,
                        pooled |-> mean_pooling(<<emb>>, mask),
                        out |-> Normalize(mean_pooling(<<emb>>, mask))]
            /\ UNCHANGED <<resp, bloom, bert, video>>

PoolReturn ==
    /\ pool # NoPool
    /\ pool' = NoPool
    /\ UNCHANGED <<resp, bloom, bert, video>>

(***************************************************************************)
(* BaseTextToVideoMiner: the Synapse class built by __init__.  The miner's *)
(* own forward, blacklist and priority are abstract or inherited: what     *)
(* they return is any value.  A shim method yields the calls it makes on   *)
(* the miner, in order, and the value it returns; r is the value the       *)
(* miner's method returned to it.                                          *)
(***************************************************************************)
None == "None"
MinerCall(method, args) == [method |-> method, args |-> args]

\* A variant that hands num_frames and fps over in the wrong order.
SynapseForwardSwapped(r, text, num_inference_steps, num_frames, fps) ==
    [calls |-> <<MinerCall("forward",
                           <<text, num_inference_steps, fps, num_frames>>)>>,
     ret |-> r]

SynapseForward(r, text, num_inference_steps, num_frames, fps) ==
    [calls |-> <<MinerCall("forward",
                           <<text, num_inference_steps, num_frames, fps>>)>>,
     ret |-> r]

SynapseBlacklist(r, forward_call) ==
    [calls |-> <<MinerCall("blacklist", <<forward_call>>)>>, ret |-> r]

SynapsePriority(r, forward_call) ==
    [calls |-> <<MinerCall("priority", <<forward_call>>)>>, ret |-> r]

SynapseBackward(video_bytes, text, rewards) ==
    [calls |-> <<>>, ret |-> None]

VideoTexts == {"t1", "t2"}
VideoArgs == 0..MaxArg
VideoBytes == {"v1", "v2"}
VideoCalls == {"call1", "call2"}
BlacklistResults == {"False", "True", "(True, 'reason')"}
PriorityResults == {"0.0", "1.0"}
Rewards == {"r0", "r1"}

NoVideo == [method |-> "none", args |-> <<>>, minerCalls |-> <<>>,
            minerRet |-> None, ret |-> None]

VideoInit == video = NoVideo

ShimStep(method, args, r, result) ==
    /\ video' = [method |-> method, args |-> args,
                 minerCalls |-> result.calls, minerRet |-> r,
                 ret |-> result.ret]
    /\ UNCHANGED <<resp, bloom, bert, pool>>

VideoForward ==
    /\ video = NoVideo
    /\ \E text \in VideoTexts, num_inference_steps \in VideoArgs,
       num_frames \in VideoArgs, fps \in VideoArgs, r \in VideoBytes :
        ShimStep("forward", <<text, num_inference_steps, num_frames, fps>>, r,
                 SynapseForward(r, text, num_inference_steps, num_frames, fps))

VideoBlacklist ==
    /\ video = NoVideo
    /\ \E forward_call \in VideoCalls, r \in BlacklistResults :
        ShimStep("blacklist", <<forward_call>>, r,
                 SynapseBlacklist(r, forward_call))

VideoPriority ==
    /\ video = NoVideo
    /\ \E forward_call \in VideoCalls, r \in PriorityResults :
        ShimStep("priority", <<forward_call>>, r,
                 SynapsePriority(r, forward_call))

VideoBackward ==
    /\ video = NoVideo
    /\ \E video_bytes \in VideoBytes, text \in VideoTexts, rewards \in Rewards :
        ShimStep("backward", <<video_bytes, text, rewards>>, None,
                 SynapseBackward(video_bytes, text, rewards))

VideoReturn ==
    /\ video # NoVideo
    /\ video' = NoVideo
    /\ UNCHANGED <<resp, bloom, bert, pool>>

(***************************************************************************)
(* Specifications: one per adapter; the other adapters stay as they are.   *)
(***************************************************************************)
BloomIdle ==
    bloom = [framework |-> "accelerate", pc |-> "new", attrs |-> {},
             initRaisedAt |-> 0, request |-> NoRequest]

BertIdle ==
    bert = [miner |-> [tokenizer |-> "none", model |-> <<>>],
            op |-> "none", text |-> <<>>, arg |-> NoCall,
            status |-> "none", calls |-> 0, out |-> <<>>,
            ret |-> "none", first |-> NoFirst, repeat |-> FALSE]

InitResp == RespInit /\ BloomIdle /\ BertIdle /\ PoolInit /\ VideoInit
NextResp == RespForward \/ RespReturn
SpecResp == InitResp /\ [][NextResp]_vars

InitHistory == RespInit /\ BloomIdle /\ BertIdle /\ PoolInit /\ VideoInit
NextHistory == ProcessHistoryCall \/ RespReturn
SpecHistory == InitHistory /\ [][NextHistory]_vars

InitBloom == RespInit /\ BloomInit /\ BertIdle /\ PoolInit /\ VideoInit
NextBloom == BloomConstruct \/ BloomForward \/ BloomReturn
SpecBloom == InitBloom /\ [][NextBloom]_vars

InitBert == RespInit /\ BloomIdle /\ BertInit /\ PoolInit /\ VideoInit
NextBert == BertForward \/ BertBlacklist \/ BertPriority \/ BertReturn
SpecBert == InitBert /\ [][NextBert]_vars

InitPool == RespInit /\ BloomIdle /\ BertIdle /\ PoolInit /\ VideoInit
NextPool == PoolForward \/ PoolReturn
SpecPool == InitPool /\ [][NextPool]_vars

InitVideo == RespInit /\ BloomIdle /\ BertIdle /\ PoolInit /\ VideoInit
NextVideo ==
    VideoForward \/ VideoBlacklist \/ VideoPriority \/ VideoBackward
        \/ VideoReturn
SpecVideo == InitVideo /\ [][NextVideo]_vars

(***************************************************************************)
(* Properties.                                                             *)
(***************************************************************************)
AllZeros(seq) == \A i \in 1..Len(seq) : seq[i] = 0
NonEmptyStrings(text) == \A b \in 1..Len(text) : text[b] # <<>>

\* The masked sum of the token vectors of row b, per dimension.
RowSum(miner, text, b) ==
    LET encoded_input == Tokenizer(text)
        row == ModelCall(miner.model, encoded_input)[1][b]
    IN  [i \in 1..Len(row[1]) |->
           SumSeq([t \in 1..Len(row) |->
                     row[t][i] * encoded_input.attention_mask[b][t]])]

\* Whether the mean-pooled vector of row b has L2 norm at least 1e-12:
\* sum(S_i^2) / count^2 >= 10^-24, with count the number of unmasked tokens.
PooledNormAtLeastEps(miner, text, b) ==
    LET S == RowSum(miner, text, b)
        count == SumSeq(Tokenizer(text).attention_mask[b])
    IN  /\ count >= 1
        /\ SumSeq([i \in 1..Len(S) |-> S[i] * S[i]])
              >= CeilDivPow10(count * count, 2 * EpsExp)

BertReturned == bert.op = "forward" /\ bert.status = "returned"

\* C1 as stated: after every forward call on non-empty input strings, there
\* is one returned vector per input string and each has L2 norm 1, whatever
\* the token embeddings.
C1_UnitNormWhateverEmbeddings ==
    (BertReturned /\ NonEmptyStrings(bert.text)) =>
        /\ Len(bert.out) = Len(bert.text)
        /\ \A b \in 1..Len(bert.out) : HasUnitNorm(bert.out[b])

\* C1 as amended: after every forward call on non-empty input strings, there
\* is one returned vector per input string, in input order; the vector of a
\* row has L2 norm 1 whenever the row's mean-pooled vector has L2 norm at
\* least 1e-12, and is the zero vector when the row's masked token
\* embeddings sum to zero.
C1_UnitNormUnlessPooledZero ==
    (BertReturned /\ NonEmptyStrings(bert.text)) =>
        /\ Len(bert.out) = Len(bert.text)
        /\ \A b \in 1..Len(bert.out) :
             /\ PooledNormAtLeastEps(bert.miner, bert.text, b)
                   => HasUnitNorm(bert.out[b])
             /\ (\A i \in 1..Len(bert.out[b]) :
                    RowSum(bert.miner, bert.text, b)[i] = 0)
                   => IsZeroVector(bert.out[b])

\* C1, witness: a batch of two non-empty strings of different lengths (one
\* row is padded) whose two returned vectors have unit norm.
C1_Witness ==
    /\ BertReturned
    /\ Len(bert.text) = 2
    /\ NonEmptyStrings(bert.text)
    /\ Len(bert.text[1]) < Len(bert.text[2])
    /\ HasUnitNorm(bert.out[1])
    /\ HasUnitNorm(bert.out[2])

\* C2: for a row whose attention mask is zero at every position, the pooling
\* divisor is the floor 1e-9 (never below it), and the pooled and normalised
\* vector has no NaN and no infinite component.
C2_AllMaskedRowIsFinite ==
    \A b \in 1..Len(pool.mask) :
        AllZeros(pool.mask[b]) =>
            /\ \A i \in 1..Len(pool.pooled[b]) :
                 /\ pool.pooled[b][i].kind = "fin"
                 /\ pool.pooled[b][i].d = [m |-> 1, e |-> -ClampMinExp]
            /\ IsFinite(pool.out[b])
            /\ pool.out[b] # <<>>

\* C2, witness: a batch whose first row is all padding and whose second row
\* is not, pooled and normalised.
C2_Witness ==
    /\ Len(pool.mask) = 2
    /\ Len(pool.mask[1]) = 2
    /\ AllZeros(pool.mask[1])
    /\ ~AllZeros(pool.mask[2])
    /\ IsFinite(pool.out[1])

C3_AccelerateNoTranscriptPrefix ==
    (resp.framework = "accelerate" /\ resp.history # <<>>) =>
        ~StartsWith(resp.out, resp.history)

C4_DeepspeedReturnsContinuation ==
    (resp.framework = "deepspeed" /\ resp.history # <<>>) =>
        \A c \in Continuations :
            resp.generated = resp.history \o c => resp.out = c

\* C4, accelerate branch, non-empty transcript: as stated.
C4_AccelerateReturnsContinuation ==
    (resp.framework = "accelerate" /\ resp.history # <<>>) =>
        \A c \in Continuations :
            resp.generated = resp.history \o c => resp.out = c

\* The line of one message, and the lines of a list of messages.
MarkerOf(role) == IF role = "assistant" THEN BotMarker ELSE HumanMarker
LineOf(message) == MarkerOf(message.role) \o message.content \o Newline
HasKnownRole(message) == message.role \in KnownRoles

RECURSIVE LinesOf(_)
LinesOf(messages) ==
    IF messages = <<>> THEN <<>>
    ELSE LineOf(Head(messages)) \o LinesOf(Tail(messages))

\* C5: _process_history returns the concatenation, in input order, of one
\* line marker + content + newline per message whose role is system, user or
\* assistant, the marker fixed by the role alone.
C5_TranscriptIsLinesInOrder ==
    resp.framework = "static" =>
        resp.history = LinesOf(SelectSeq(resp.messages, HasKnownRole))

\* C5, witness: a system message followed by an assistant message with
\* different contents, formatted.
C5_Witness ==
    /\ resp.framework = "static"
    /\ Len(resp.messages) = 2
    /\ resp.messages[1].role = "system"
    /\ resp.messages[2].role = "assistant"
    /\ resp.messages[1].content # resp.messages[2].content
    /\ resp.messages[1].content # <<>>
    /\ Len(resp.history) > Len(HumanMarker) + Len(BotMarker)

\* C6: blacklist always returns False and priority always returns 0.0, after
\* any earlier requests, and neither call changes the miner.
C6_HooksAreConstant ==
    /\ [](bert.op = "blacklist" => bert.ret = FALSE)
    /\ [](bert.op = "priority" => bert.ret = 0)
    /\ [][bert'.op \in {"blacklist", "priority"} => bert'.miner = bert.miner]_vars

\* C6, witness: blacklist answered after an earlier forward call.
C6_Witness ==
    /\ bert.op = "blacklist"
    /\ bert.arg.hotkey = "hk2"
    /\ bert.first # NoFirst

\* C7: a forward call whose input equals that of the first forward call
\* returns the vectors the first call returned, whatever calls ran in
\* between, and no call changes the miner (tokenizer and model).
C7_ForwardDependsOnInputOnly ==
    /\ []((BertReturned /\ bert.text = bert.first.text)
            => bert.out = bert.first.out)
    /\ [][bert'.miner = bert.miner]_vars

\* C7, witness: a later forward call with the input of the first one.
C7_Witness ==
    /\ BertReturned
    /\ bert.repeat
    /\ bert.text = bert.first.text
    /\ Len(bert.text) = 2

\* C8 as stated: every forward call invokes the model exactly once, and a
\* call that raised returned no response.
C8_ModelInvokedExactlyOnce ==
    bloom.request.status # "none" =>
        /\ bloom.request.calls = 1
        /\ bloom.request.status = "raised" => bloom.request.out = <<>>

\* C8, the embedding miner's part, which holds: forward invokes the model
\* once, and a call that raised returned no vectors.
C8_BertModelInvokedOnce ==
    bert.op = "forward" =>
        /\ bert.calls = 1
        /\ bert.status = "raised" => bert.out = <<>>

\* C9: forward, blacklist and priority of the Synapse call the miner's
\* method of the same name once, with the same arguments in the same order,
\* and return its result; backward calls nothing and returns nothing.
C9_ShimDelegates ==
    /\ video.method \in {"forward", "blacklist", "priority"} =>
          /\ video.minerCalls = <<MinerCall(video.method, video.args)>>
          /\ video.ret = video.minerRet
    /\ video.method = "backward" =>
          /\ video.minerCalls = <<>>
          /\ video.ret = None

\* C9, witness: forward delegated with num_frames different from fps.
C9_Witness ==
    /\ video.method = "forward"
    /\ video.args[3] # video.args[4]
    /\ Len(video.minerCalls) = 1
    /\ video.ret = "v2"

\* C10 as stated: for each deployment framework, __init__ completes and has
\* assigned every attribute that the matching branch of forward reads.
C10_InitAssignsWhatForwardReads ==
    bloom.pc # "new" =>
        /\ bloom.pc = "ready"
        /\ ForwardReads(bloom.framework) \subseteq bloom.attrs

\* C10, per framework: with accelerate __init__ completes.
C10_AccelerateInitCompletes ==
    (bloom.framework = "accelerate" /\ bloom.pc # "new") => bloom.pc = "ready"

\* C10, per framework: with deepspeed the attributes forward reads are set.
C10_DeepspeedForwardAttributesSet ==
    (bloom.framework = "deepspeed" /\ bloom.pc # "new") =>
        ForwardReads(bloom.framework) \subseteq bloom.attrs

====
